---- MODULE Spec2Model ----
(***************************************************************************)
(* Model of the unique-type crate (src/src/lib.rs).                        *)
(*                                                                         *)
(* The crate has no runtime behaviour: everything it does happens while a  *)
(* client program is compiled against it.  The state machine below is the  *)
(* compilation of such a client program: the state is the set of items the *)
(* compiler has resolved so far (new!() expansions, Set values, Template   *)
(* instantiations, the two tagged values a and b of the crate's doc tests) *)
(* and the result of the last type check.  The actions are                 *)
(* the things client code can write: a new!() expansion                    *)
(* (in its three compilation phases: macro expansion, constant evaluation  *)
(* of the const generic argument, instantiation of Template), a use of the *)
(* minted type, a call of a function with a shared Tag generic, an         *)
(* assignment, a direct call of Set::unique, a direct naming of Template   *)
(* and attempts to implement the two traits.                               *)
(*                                                                         *)
(* Types are records [kind, arg]:                                          *)
(*   "named"    arg = index of a nameable type (usize, u8, ...)            *)
(*   "closure"  arg = the closure expression the type belongs to: k for    *)
(*              the one in the k-th new!() expansion, MaxMints + i for the *)
(*              one in the i-th direct call of Set::unique                 *)
(*   "template" arg = the TypeId wrapped by the Set const parameter        *)
(* TypeId::of is a compiler intrinsic; it is modelled as a collision-free  *)
(* numbering of the types.                                                 *)
(***************************************************************************)
EXTENDS Integers, Sequences, FiniteSets, TLC

\* ---------------------------------------------------------------- bounds
MaxMints == 2     \* new!() expansions in the client program
NumNamed == 2     \* nameable types of the client program (usize, u8)
MaxDirect == 2    \* direct calls of Set::unique by client code
MaxRuns == 2      \* times the code around one expansion is evaluated

MaxDefs == MaxMints + MaxDirect
TemplateBase == NumNamed + MaxDefs

VARIABLES mints, direct, forged, values, sealImpls, uniqueImpls, last

vars == <<mints, direct, forged, values, sealImpls, uniqueImpls, last>>

\* ---------------------------------------------------------------- types
Named(n) == [kind |-> "named", arg |-> n]

NoType == [kind |-> "none", arg |-> 0]

NoToken == [id |-> 0]

NamedTypes == {Named(n) : n \in 1..NumNamed}

\* Faulty variant: one TypeId for all closure types.
TypeIdOfFlat(t) ==
  CASE t.kind = "named" -> t.arg
    [] t.kind = "closure" -> NumNamed + 1
    [] t.kind = "template" -> TemplateBase + t.arg
    [] OTHER -> 0

\* core::any::TypeId::of::<T>()
TypeIdOf(t) ==
  CASE t.kind = "named" -> t.arg
    [] t.kind = "closure" -> NumNamed + t.arg
    [] t.kind = "template" -> TemplateBase + t.arg
    [] OTHER -> 0

\* Set::unique::<T>(_: &'static T) -> Self(TypeId::of::<T>())
SetUnique(t) == [id |-> TypeIdOf(t)]

\* #[derive(PartialEq, Eq)] on Set(TypeId)
SetEq(s1, s2) == s1.id = s2.id

\* Template<const T: Set>
TemplateOf(s) == [kind |-> "template", arg |-> s.id]

\* The type of the closure expression ||{} of one expansion: one type per
\* closure expression (the expansion record e carries the expression, e.def,
\* and the source position of the new!() tokens, e.pos).
\* (Faulty variant: identity by source position, as file!/line!/column!.)
ClosureTypeByPos(e) == [kind |-> "closure", arg |-> e.pos]

ClosureTypeOf(e) == [kind |-> "closure", arg |-> e.def]

\* Type equality as the type checker decides it: same constructor, and for
\* Template the const parameters compare equal.
TypeEq(t, u) == t.kind = u.kind /\ SetEq([id |-> t.arg], [id |-> u.arg])

\* mod pvt is private: pvt::Unique cannot be named outside the crate.
\* (Faulty variant: pub mod pvt.)
PvtReachableMut == TRUE

PvtReachable == FALSE

\* impl<const T: Set> pvt::Unique for Template<T> {}
ImplementsPvt(t) == t.kind = "template" \/ t \in sealImpls

\* pub trait Unique: pvt::Unique {}  impl<T: pvt::Unique> Unique for T {}
ImplementsUnique(t) == ImplementsPvt(t) \/ t \in uniqueImpls

\* ---------------------------------------------------------------- state
NoValue == [mint |-> 0, inst |-> 0, run |-> 0, tag |-> NoType]

\* let a: Struct<...> and let b: Struct<...> of the doc tests
Slots == {"a", "b"}

NoCheck == [op |-> "none", ok |-> FALSE, x |-> NoValue, y |-> NoValue,
            t |-> NoType, unsf |-> FALSE]

Resolved(m) == mints[m].stage = "template"

MintTypes == {mints[m].ty : m \in {k \in DOMAIN mints : Resolved(k)}}

ClosureTypes ==
  {[kind |-> "closure", arg |-> d] : d \in 1..Len(mints)}
    \cup {direct[i].witness : i \in DOMAIN direct}

\* every Set value constructed so far, with the witness type it was built
\* from and who called the constructor
TokenLog ==
  {[w |-> ClosureTypeOf(mints[m]), val |-> mints[m].token, by |-> "mint"] :
     m \in {k \in DOMAIN mints : mints[k].stage # "expanded"}}
    \cup {[w |-> direct[i].witness, val |-> direct[i].val, by |-> "client"] :
            i \in DOMAIN direct}

\* every type the client program can mention
Universe == NamedTypes \cup ClosureTypes \cup MintTypes \cup forged

Init ==
  /\ mints = <<>>
  /\ direct = <<>>
  /\ forged = {}
  /\ values = [s \in Slots |-> NoValue]
  /\ sealImpls = {}
  /\ uniqueImpls = {}
  /\ last = NoCheck

\* ---------------------------------------------------------------- new!()
\* Source positions are numbered in the order the expansions first use them.
UsedPos == {mints[k].pos : k \in DOMAIN mints}

NextPos == Cardinality(UsedPos) + 1

\* Macro expansion of one new!() occurrence.  pos is the source position of
\* the new!() tokens; via = "direct" is an occurrence written in the client
\* code itself (it has a position of its own, however alike the text around
\* two occurrences is), via = "macro" is an occurrence written in the body
\* of a client macro, which every invocation of that macro expands again at
\* the same position.  generic says whether the enclosing function is
\* generic.  The expansion contains one new closure expression.
MintExpand(pos, via, generic) ==
  /\ Len(mints) < MaxMints
  /\ pos \in UsedPos \cup {NextPos}
  /\ \A k \in DOMAIN mints :
       mints[k].pos = pos => (via = "macro" /\ mints[k].via = "macro")
  /\ mints' = Append(mints, [pos |-> pos, via |-> via, generic |-> generic,
                             def |-> Len(mints) + 1, stage |-> "expanded",
                             ntok |-> 0, token |-> NoToken, ty |-> NoType])
  /\ UNCHANGED <<direct, forged, values, sealImpls, uniqueImpls, last>>

\* Faulty variant: the constant evaluation constructs two tokens.
MintTokenTwice(m) ==
  /\ mints[m].stage = "expanded"
  /\ mints' = [mints EXCEPT ![m].token = SetUnique(ClosureTypeOf(mints[m])),
                            ![m].ntok = @ + 2,
                            ![m].stage = "token"]
  /\ UNCHANGED <<direct, forged, values, sealImpls, uniqueImpls, last>>

\* Constant evaluation of { unsafe { $crate::Set::unique(&(||{})) } }
MintToken(m) ==
  /\ mints[m].stage = "expanded"
  /\ mints' = [mints EXCEPT ![m].token = SetUnique(ClosureTypeOf(mints[m])),
                            ![m].ntok = @ + 1,
                            ![m].stage = "token"]
  /\ UNCHANGED <<direct, forged, values, sealImpls, uniqueImpls, last>>

\* Instantiation of $crate::Template<{ ... }> at the evaluated constant
MintTemplate(m) ==
  /\ mints[m].stage = "token"
  /\ mints' = [mints EXCEPT ![m].ty = TemplateOf(mints[m].token),
                            ![m].stage = "template"]
  /\ UNCHANGED <<direct, forged, values, sealImpls, uniqueImpls, last>>

\* The type the expansion m denotes in instantiation inst of its enclosing
\* function, at its run-th evaluation.  The expansion is a type expression
\* whose const argument mentions neither a generic parameter nor a runtime
\* value: it denotes the one type instantiated for the expansion.
\* (Faulty variants: a type per instantiation, a type per evaluation.)
TagAtInst(m, inst, run) ==
  TemplateOf(SetUnique([kind |-> "closure",
                        arg |-> mints[m].def + MaxDefs * inst]))

TagAtRun(m, inst, run) ==
  TemplateOf(SetUnique([kind |-> "closure",
                        arg |-> mints[m].def + MaxDefs * (run - 1)]))

TagAt(m, inst, run) == mints[m].ty

\* Client code declares the value a or b, tagged with the type of expansion
\* m, e.g. let a = Struct::<new!()>::new().  In a non-generic function
\* inst = 0 and run is the loop iteration or call that reaches the code; in
\* a generic function inst is the nameable type the function is
\* instantiated at (taken at its first evaluation).
Use(slot, m, inst, run) ==
  /\ values[slot] = NoValue
  /\ mints[m].ty.kind = "template"
  /\ IF mints[m].generic THEN inst \in 1..NumNamed /\ run = 1 ELSE inst = 0
  /\ values' = [values EXCEPT ![slot] =
                  [mint |-> m, inst |-> inst, run |-> run, tag |-> TagAt(m, inst, run)]]
  /\ UNCHANGED <<mints, direct, forged, sealImpls, uniqueImpls, last>>

\* Faulty variant: the two tags are not unified.
CallFooNoUnify(x, y) ==
  /\ x # NoValue /\ y # NoValue
  /\ last' = [NoCheck EXCEPT !.op = "foo", !.x = x, !.y = y,
                !.ok = ImplementsUnique(x.tag) /\ ImplementsUnique(y.tag)]
  /\ UNCHANGED <<mints, direct, forged, values, sealImpls, uniqueImpls>>

\* fn foo<Tag: Unique>(a: Struct<Tag>, b: Struct<Tag>) called as foo(x, y)
CallFoo(x, y) ==
  /\ x # NoValue /\ y # NoValue
  /\ last' = [NoCheck EXCEPT !.op = "foo", !.x = x, !.y = y,
                !.ok = TypeEq(x.tag, y.tag) /\ ImplementsUnique(x.tag)]
  /\ UNCHANGED <<mints, direct, forged, values, sealImpls, uniqueImpls>>

\* let b: <type of y> = x;
Assign(x, y) ==
  /\ x # NoValue /\ y # NoValue
  /\ last' = [NoCheck EXCEPT !.op = "assign", !.x = x, !.y = y,
                !.ok = TypeEq(x.tag, y.tag)]
  /\ UNCHANGED <<mints, direct, forged, values, sealImpls, uniqueImpls>>

\* ---------------------------------------------------------------- client code
\* Client code calls the pub const unsafe fn Set::unique itself, inside an
\* unsafe block or not, with a witness of a nameable type (&0usize) or with
\* a closure of its own (&(||{})); w = NoType stands for the closure.
\* (Faulty variant: a nameable witness is detected and refused.)
ExternUniqueChecked(unsf, w) ==
  /\ Len(direct) < MaxDirect
  /\ LET fresh == w = NoType
         wt == IF fresh THEN [kind |-> "closure", arg |-> MaxMints + Len(direct) + 1] ELSE w
         ok == unsf /\ fresh
     IN /\ last' = [NoCheck EXCEPT !.op = "unique", !.ok = ok, !.t = wt, !.unsf = unsf]
        /\ direct' = IF ok THEN Append(direct, [witness |-> wt, val |-> SetUnique(wt)])
                     ELSE direct
  /\ UNCHANGED <<mints, forged, values, sealImpls, uniqueImpls>>

ExternUnique(unsf, w) ==
  /\ Len(direct) < MaxDirect
  /\ LET fresh == w = NoType
         wt == IF fresh THEN [kind |-> "closure", arg |-> MaxMints + Len(direct) + 1] ELSE w
         ok == unsf
     IN /\ last' = [NoCheck EXCEPT !.op = "unique", !.ok = ok, !.t = wt, !.unsf = unsf]
        /\ direct' = IF ok THEN Append(direct, [witness |-> wt, val |-> SetUnique(wt)])
                     ELSE direct
  /\ UNCHANGED <<mints, forged, values, sealImpls, uniqueImpls>>

\* Client code names the pub struct Template at a token it built itself.
ExternTemplate(i) ==
  /\ TemplateOf(direct[i].val) \notin forged
  /\ forged' = forged \cup {TemplateOf(direct[i].val)}
  /\ UNCHANGED <<mints, direct, values, sealImpls, uniqueImpls, last>>

\* impl unique_type::Unique for t {} in client code: needs the supertrait
\* t: pvt::Unique, and must not overlap the blanket impl.
ExternImplUnique(t) ==
  /\ LET supertrait == ImplementsPvt(t)
         overlapsBlanket == ImplementsPvt(t)
         ok == supertrait /\ ~overlapsBlanket
     IN /\ last' = [NoCheck EXCEPT !.op = "implUnique", !.ok = ok, !.t = t]
        /\ uniqueImpls' = IF ok THEN uniqueImpls \cup {t} ELSE uniqueImpls
  /\ UNCHANGED <<mints, direct, forged, values, sealImpls>>

\* impl unique_type::pvt::Unique for t {} in client code
ExternImplSeal(t) ==
  /\ LET ok == PvtReachable
     IN /\ last' = [NoCheck EXCEPT !.op = "implSeal", !.ok = ok, !.t = t]
        /\ sealImpls' = IF ok THEN sealImpls \cup {t} ELSE sealImpls
  /\ UNCHANGED <<mints, direct, forged, values, uniqueImpls>>

\* A client program that mints types and uses them.
NextMint ==
  \/ \E pos \in 1..MaxMints, via \in {"direct", "macro"}, generic \in BOOLEAN :
       MintExpand(pos, via, generic)
  \/ \E m \in DOMAIN mints : MintToken(m)
  \/ \E m \in DOMAIN mints : MintTemplate(m)
  \/ \E slot \in Slots, m \in DOMAIN mints, inst \in 0..NumNamed, run \in 1..MaxRuns :
       Use(slot, m, inst, run)
  \/ CallFoo(values["a"], values["b"])
  \/ Assign(values["a"], values["b"])

SpecMint == Init /\ [][NextMint]_vars

\* A client program that mints types and tries to implement the traits.
NextSeal ==
  \/ \E pos \in 1..MaxMints, via \in {"direct", "macro"}, generic \in BOOLEAN :
       MintExpand(pos, via, generic)
  \/ \E m \in DOMAIN mints : MintToken(m)
  \/ \E m \in DOMAIN mints : MintTemplate(m)
  \/ \E t \in Universe : ExternImplUnique(t)
  \/ \E t \in Universe : ExternImplSeal(t)

SpecSeal == Init /\ [][NextSeal]_vars

\* A client program that reaches for the crate's other public items.
NextClient ==
  \/ \E unsf \in BOOLEAN, w \in NamedTypes \cup {NoType} : ExternUnique(unsf, w)
  \/ \E i \in DOMAIN direct : ExternTemplate(i)
  \/ \E t \in Universe : ExternImplUnique(t)
  \/ \E t \in Universe : ExternImplSeal(t)

SpecClient == Init /\ [][NextClient]_vars

\* ---------------------------------------------------------------- claims
\* the tagged values declared so far
Values == {values[s] : s \in Slots} \ {NoValue}

TypeChecked == last.op \in {"foo", "assign"}

\* C1: any two distinct new!() expansions, copy-pasted ones and two
\* invocations of a client macro wrapping new!() included, denote unequal
\* types: the types differ, their TypeIds differ, and a value of one is
\* rejected where the other is expected.
C1_DistinctExpansions ==
  /\ \A m1 \in DOMAIN mints, m2 \in DOMAIN mints :
       (m1 # m2 /\ Resolved(m1) /\ Resolved(m2)) =>
         /\ ~TypeEq(mints[m1].ty, mints[m2].ty)
         /\ TypeIdOf(mints[m1].ty) # TypeIdOf(mints[m2].ty)
  /\ (last.op = "assign" /\ last.x.mint # last.y.mint) => ~last.ok

C1_Witness ==
  /\ \E m1 \in DOMAIN mints, m2 \in DOMAIN mints :
       /\ m1 # m2 /\ Resolved(m1) /\ Resolved(m2)
       /\ mints[m1].via = "macro" /\ mints[m2].via = "macro"
       /\ mints[m1].pos = mints[m2].pos
  /\ last.op = "assign" /\ last.x.mint # last.y.mint

C3_SameTagIff ==
  last.op = "foo" =>
    /\ last.ok <=> (last.x.tag = last.y.tag)
    /\ last.ok <=> (last.x.mint = last.y.mint)

C3_Witness ==
  /\ last.op = "foo" /\ ~last.ok
  /\ last.x.mint # last.y.mint
  /\ ImplementsUnique(last.x.tag) /\ ImplementsUnique(last.y.tag)

\* C4: the implementors of Unique are the implementors of pvt::Unique, which
\* are exactly the Template instantiations; no declaration of client code
\* changes that set: every attempt to implement either trait is rejected.
C4_SealedImplementors ==
  /\ {t \in Universe : ImplementsUnique(t)} = {t \in Universe : ImplementsPvt(t)}
  /\ {t \in Universe : ImplementsPvt(t)} = {t \in Universe : t.kind = "template"}
  /\ \A k \in TokenLog : ImplementsPvt(TemplateOf(k.val))
  /\ last.op \in {"implUnique", "implSeal"} => ~last.ok
  /\ sealImpls = {} /\ uniqueImpls = {}

C4_Witness ==
  /\ last.op = "implSeal" /\ last.t.kind = "named"
  /\ \E m1 \in DOMAIN mints, m2 \in DOMAIN mints :
       m1 # m2 /\ Resolved(m1) /\ Resolved(m2)

\* C5: every type that satisfies a Tag: Unique bound was produced by a new!()
\* expansion, whatever public items of the crate client code uses.
C5_OnlyMintedAreUnique ==
  \A t \in Universe : ImplementsUnique(t) => t \in MintTypes

\* C6: Set::unique is unreachable outside the expansion of new!(): every Set
\* value that exists was constructed by an expansion.
C6_OnlyMintConstructs == \A k \in TokenLog : k.by = "mint"

\* C7: two direct calls of Set::unique with witnesses of one nameable type
\* both succeed without an error, yield equal tokens, and the two Template
\* instantiations built from them are the same type.
C7_MisuseCollides ==
  /\ (last.op = "unique" /\ last.unsf) => last.ok
  /\ \A i \in DOMAIN direct, j \in DOMAIN direct :
       direct[i].witness = direct[j].witness =>
         /\ SetEq(direct[i].val, direct[j].val)
         /\ TypeEq(TemplateOf(direct[i].val), TemplateOf(direct[j].val))
         /\ TypeIdOf(TemplateOf(direct[i].val)) = TypeIdOf(TemplateOf(direct[j].val))

C7_Witness ==
  /\ \E i \in DOMAIN direct, j \in DOMAIN direct :
       /\ i # j
       /\ direct[i].witness = direct[j].witness
       /\ direct[i].witness.kind = "named"
  /\ Cardinality(forged) = 1

\* C8: the map from witness type to minted type is injective: two tokens are
\* equal exactly when their witness types are the same type, and two Template
\* instantiations are the same type exactly when their tokens are equal.
C8_Injective ==
  /\ \A T \in NamedTypes \cup ClosureTypes, U \in NamedTypes \cup ClosureTypes :
       SetEq(SetUnique(T), SetUnique(U)) <=> (T = U)
  /\ \A a \in TokenLog, b \in TokenLog :
       /\ SetEq(a.val, b.val) <=> (a.w = b.w)
       /\ TypeEq(TemplateOf(a.val), TemplateOf(b.val)) <=> SetEq(a.val, b.val)

C8_Witness ==
  /\ \E i \in DOMAIN direct, j \in DOMAIN direct :
       i # j /\ direct[i].witness.kind = "closure" /\ direct[j].witness.kind = "named"
  /\ Cardinality(forged) = 2

\* C9: every use of one new!() expansion refers to the same type, however
\* often the code holding the expansion is evaluated: the values tagged by
\* it have one tag type and type-check against each other.
C9_OneTypePerExpansion ==
  /\ \A x \in Values, y \in Values :
       (x.mint = y.mint /\ ~mints[x.mint].generic) =>
         /\ TypeEq(x.tag, y.tag)
         /\ x.tag = mints[x.mint].ty
  /\ (TypeChecked /\ last.x.mint = last.y.mint /\ ~mints[last.x.mint].generic)
       => last.ok

C9_Witness ==
  /\ last.op = "foo" /\ last.ok
  /\ last.x.mint = last.y.mint /\ last.x.run # last.y.run
  /\ ~mints[last.x.mint].generic

\* C10: an expansion is resolved in a fixed order: its token is computed from
\* the witness of its call site, then Template is instantiated at that token,
\* and the resulting type satisfies the seal and Unique; no code that names
\* the type is type-checked before that, and the expansion constructs exactly
\* one token, which parameterizes that one instantiation only.
C10_ExpansionOrder ==
  /\ \A m \in DOMAIN mints :
       /\ mints[m].stage = "expanded" =>
            mints[m].ntok = 0 /\ mints[m].token = NoToken /\ mints[m].ty = NoType
       /\ mints[m].stage = "token" =>
            /\ mints[m].ntok = 1 /\ mints[m].ty = NoType
            /\ mints[m].token = SetUnique(ClosureTypeOf(mints[m]))
       /\ mints[m].stage = "template" =>
            /\ mints[m].ntok = 1
            /\ mints[m].token = SetUnique(ClosureTypeOf(mints[m]))
            /\ mints[m].ty = TemplateOf(mints[m].token)
            /\ ImplementsPvt(mints[m].ty) /\ ImplementsUnique(mints[m].ty)
       /\ \A k \in DOMAIN mints :
            (k # m /\ Resolved(k)) => mints[k].ty # TemplateOf(mints[m].token)
  /\ \A v \in Values : Resolved(v.mint)
  /\ TypeChecked => Resolved(last.x.mint) /\ Resolved(last.y.mint)

C10_Witness ==
  /\ Values # {}
  /\ \E m \in DOMAIN mints : mints[m].stage = "token"
  /\ \E m \in DOMAIN mints : Resolved(m)

====
